---- MODULE Spec2Model ----
(***************************************************************************)
(* Billing and settlement core of the car rental application (src/app.py). *)
(* The relational store is modelled as one finite map per table, keyed by  *)
(* the primary key; every request handler is one action that reads the     *)
(* store, writes it, and leaves the HTTP outcome in resp.                  *)
(***************************************************************************)
EXTENDS Integers, FiniteSets, Sequences, TLC

VARIABLES today, cars, customers, rentals, payments, fines, damages, salik,
          bookings, defleeted, car_order, resp, pc, sess, inflight

vars == <<today, cars, customers, rentals, payments, fines, damages, salik,
          bookings, defleeted, car_order, resp, pc, sess, inflight>>

(* ------------------------------ bounds --------------------------------- *)
\* calendar days are 1..MaxDay
MaxDay == 2
\* rental keys are 1..MaxRentals: an insert needs a free key above the
\* largest live one
MaxRentals == 2
\* at most MaxCharges rows over the fine, damage and salik tables together
MaxCharges == 2
\* at most MaxPayments rows in the payment table
MaxPayments == 1
\* at most MaxBookings rows in the booking table
MaxBookings == 1

(* --------------------------- value encoding ---------------------------- *)
\* a NULL date column (Rental.end_date, Rental.deposit_refund_date)
NoDate == 0
\* date.max, the stand-in for an open end in the overlap test
DateMax == 9999
\* a NULL Float column (Rental.deposit, Rental.deposit_refunded_amount)
NoAmount == -9999
\* a NULL settled_via column
NoVia == "None"
\* "no such row" in a response
NoId == 0

Days == 1..MaxDay
DaysOrNone == Days \cup {NoDate}
CarIds == {1, 2}
CustomerIds == {1, 2}

\* `x or 0` on a nullable Float
OrZero(x) == IF x = NoAmount THEN 0 ELSE x

\* `d or date.max` on a nullable Date
OrDateMax(d) == IF d = NoDate THEN DateMax ELSE d

\* Python's max(a, b)
Max2(a, b) == IF b > a THEN b ELSE a

\* the largest element of a non-empty set of integers
MaxOf(S) == CHOOSE x \in S : \A y \in S : y <= x
\* the smallest element of a non-empty set of integers
MinOf(S) == CHOOSE x \in S : \A y \in S : x <= y

\* primary key of the next inserted row (SQLite rowid: largest key + 1)
NextId(t) == IF DOMAIN t = {} THEN 1 ELSE MaxOf(DOMAIN t) + 1

\* a table without rows
EmptyTable == [x \in {} |-> 0]

\* the table t without the row k
Without(t, k) == [x \in DOMAIN t \ {k} |-> t[x]]

\* sum(row.amount or 0 for row in S) over the rows S of table t
RECURSIVE SumAmounts(_, _)
SumAmounts(t, S) ==
    IF S = {} THEN 0
    ELSE LET k == CHOOSE x \in S : TRUE
         IN OrZero(t[k].amount) + SumAmounts(t, S \ {k})

\* the template context of a response that renders no figures
NoView == <<>>

\* the outcome of a request: the handler, how it ended, the rental it was
\* about, the conflicting rental it reports, for an unhandled error the
\* statement that raised, and the figures handed to the template
Response(op, status, rental, conflict) ==
    [op |-> op, status |-> status, rental |-> rental, conflict |-> conflict,
     at |-> "none", view |-> NoView]

(* ------------------------------ rentals -------------------------------- *)
\* faulty variant: strict comparisons, so ranges that share only a boundary day pass
RangesOverlapStrict(rStart, rEnd, newStart, newEnd) ==
    rStart < OrDateMax(newEnd) /\ newStart < OrDateMax(rEnd)

\* the overlap test of add_rental: both ends inclusive, open end = date.max
RangesOverlap(rStart, rEnd, newStart, newEnd) ==
    rStart <= OrDateMax(newEnd) /\ newStart <= OrDateMax(rEnd)

\* the first rental of the car (in key order) that overlaps the requested
\* range, NoId when there is none
ConflictRental(car_id, start_date, end_date) ==
    LET hits == {r \in DOMAIN rentals :
                    /\ rentals[r].car_id = car_id
                    /\ RangesOverlap(rentals[r].start_date, rentals[r].end_date,
                                     start_date, end_date)}
    IN IF hits = {} THEN NoId ELSE MinOf(hits)

\* `'fixed' if end_date else 'open'`
ContractType(end_date) == IF end_date = NoDate THEN "open" ELSE "fixed"

\* the billing interval add_rental gives every rental, in days
BillingIntervalDays == 30

\* the Rental row add_rental builds: the settlement columns take their
\* defaults, the billing interval is fixed and the next billing date is one
\* interval after the start
NewRental(car_id, customer_id, start_date, end_date, planned_rent, actual_rent, deposit) ==
    [car_id |-> car_id, customer_id |-> customer_id,
     start_date |-> start_date, end_date |-> end_date,
     contract_type |-> ContractType(end_date),
     planned_rent |-> planned_rent, actual_rent |-> actual_rent,
     deposit |-> deposit,
     deposit_refunded |-> FALSE, deposit_refunded_amount |-> NoAmount,
     deposit_refund_date |-> NoDate,
     billing_interval_days |-> BillingIntervalDays,
     next_billing_date |-> start_date + BillingIntervalDays]

\* POST /rentals/add
add_rental(car_id, customer_id, start_date, end_date, planned_rent, actual_rent, deposit) ==
    /\ pc = "idle"
    /\ LET conflict == ConflictRental(car_id, start_date, end_date)
       IN IF conflict # NoId
          THEN /\ resp' = Response("add_rental", "overlap", NoId, conflict)
               /\ UNCHANGED rentals
          ELSE /\ NextId(rentals) <= MaxRentals
               /\ rentals' = rentals @@
                     (NextId(rentals) :>
                        NewRental(car_id, customer_id, start_date, end_date,
                                  planned_rent, actual_rent, deposit))
               /\ resp' = Response("add_rental", "ok", NextId(rentals), NoId)
    /\ UNCHANGED <<today, bookings, defleeted, car_order, cars, customers, payments, fines, damages, salik, pc, sess, inflight>>

(* ------------------- add_rental, request by request -------------------- *)
\* The server handles requests in threads. A POST /rentals/add first reads
\* the rentals of the car and tests them for an overlap, and then inserts
\* and commits; no transaction or lock spans the two, so another request can
\* commit in between.

\* the requests that can be in progress at the same time
Requests == {1, 2}

\* a request that has not read anything
NoRequest ==
    [at |-> "none", car_id |-> NoId, customer_id |-> NoId,
     start_date |-> NoDate, end_date |-> NoDate, planned_rent |-> NoAmount,
     actual_rent |-> NoAmount, deposit |-> NoAmount]

NoRequests == [q \in Requests |-> NoRequest]

\* lines 640-670: the form is parsed and the car's rentals are read and
\* tested; on an overlap the request ends with the form shown again
add_rental_read(q, car_id, customer_id, start_date, end_date, planned_rent, actual_rent, deposit) ==
    /\ pc = "idle"
    /\ inflight[q].at = "none"
    /\ LET conflict == ConflictRental(car_id, start_date, end_date)
       IN IF conflict # NoId
          THEN /\ resp' = Response("add_rental", "overlap", NoId, conflict)
               /\ UNCHANGED inflight
          ELSE /\ inflight' = [inflight EXCEPT ![q] =
                     [at |-> "checked", car_id |-> car_id,
                      customer_id |-> customer_id, start_date |-> start_date,
                      end_date |-> end_date, planned_rent |-> planned_rent,
                      actual_rent |-> actual_rent, deposit |-> deposit]]
               /\ UNCHANGED resp
    /\ UNCHANGED <<today, bookings, defleeted, car_order, cars, customers,
                   rentals, payments, fines, damages, salik, pc, sess>>

\* lines 672-686: the rental built from the form is inserted and committed
add_rental_insert(q) ==
    /\ pc = "idle"
    /\ inflight[q].at = "checked"
    /\ NextId(rentals) <= MaxRentals
    /\ rentals' = rentals @@
          (NextId(rentals) :>
             NewRental(inflight[q].car_id, inflight[q].customer_id,
                       inflight[q].start_date, inflight[q].end_date,
                       inflight[q].planned_rent, inflight[q].actual_rent,
                       inflight[q].deposit))
    /\ resp' = Response("add_rental", "ok", NextId(rentals), NoId)
    /\ inflight' = [inflight EXCEPT ![q] = NoRequest]
    /\ UNCHANGED <<today, bookings, defleeted, car_order, cars, customers,
                   payments, fines, damages, salik, pc, sess>>

\* faulty variant: the edit rebuilds the row, so the settlement columns fall back
\* to their defaults
edit_rental_rebuilding(r, car_id, customer_id, start_date, end_date, planned_rent, actual_rent, deposit) ==
    /\ pc = "idle"
    /\ r \in DOMAIN rentals
    /\ rentals' = [rentals EXCEPT ![r] =
                      NewRental(car_id, customer_id, start_date, end_date,
                                planned_rent, actual_rent, deposit)]
    /\ resp' = Response("edit_rental", "ok", r, NoId)
    /\ UNCHANGED <<today, bookings, defleeted, car_order, cars, customers, payments, fines, damages, salik, pc, sess, inflight>>

\* POST /rentals/edit/<rental_id>: the row is overwritten with the form's
\* values; the settlement columns are not part of the form
edit_rental(r, car_id, customer_id, start_date, end_date, planned_rent, actual_rent, deposit) ==
    /\ pc = "idle"
    /\ r \in DOMAIN rentals
    /\ rentals' = [rentals EXCEPT ![r] =
                      [@ EXCEPT !.car_id = car_id, !.customer_id = customer_id,
                                !.start_date = start_date, !.end_date = end_date,
                                !.contract_type = ContractType(end_date),
                                !.planned_rent = planned_rent,
                                !.actual_rent = actual_rent,
                                !.deposit = deposit]]
    /\ resp' = Response("edit_rental", "ok", r, NoId)
    /\ UNCHANGED <<today, bookings, defleeted, car_order, cars, customers, payments, fines, damages, salik, pc, sess, inflight>>

\* POST /rentals/delete/<rental_id>: the unit of work detaches the children
\* before deleting the row. Payment.rental_id is nullable and is set to NULL;
\* Salik.rental_id is NOT NULL, so a rental with toll entries cannot be
\* deleted: the flush fails and the transaction is rolled back
delete_rental(r) ==
    /\ pc = "idle"
    /\ r \in DOMAIN rentals
    /\ IF \E s \in DOMAIN salik : salik[s].rental_id = r
       THEN /\ resp' = Response("delete_rental", "error", r, NoId)
            /\ UNCHANGED <<rentals, payments>>
       ELSE /\ rentals' = Without(rentals, r)
            /\ payments' = [p \in DOMAIN payments |->
                              IF payments[p].rental_id = r
                              THEN [payments[p] EXCEPT !.rental_id = NoId]
                              ELSE payments[p]]
            /\ resp' = Response("delete_rental", "ok", r, NoId)
    /\ UNCHANGED <<today, bookings, defleeted, car_order, cars, customers, fines, damages, salik, pc, sess, inflight>>

\* the calendar advances by one day (date.today() is read by the handlers)
Tick ==
    /\ pc = "idle"
    /\ today < MaxDay
    /\ today' = today + 1
    /\ UNCHANGED <<cars, customers, rentals, payments, fines, damages, salik,
                   bookings, defleeted, car_order, resp, pc, sess, inflight>>

(* ------------------------------ charges -------------------------------- *)
ChargeRows == Cardinality(DOMAIN fines) + Cardinality(DOMAIN damages)
                + Cardinality(DOMAIN salik)

\* a Fine or Damage row
NewCharge(car_id, customer_id, amount, paid, settled_via) ==
    [car_id |-> car_id, customer_id |-> customer_id, amount |-> amount,
     paid |-> paid, settled_via |-> settled_via]

\* a Salik row
NewSalik(car_id, rental_id, amount, paid, settled_via) ==
    [car_id |-> car_id, rental_id |-> rental_id, amount |-> amount,
     paid |-> paid, settled_via |-> settled_via]

\* `request.form.get('settled_via') or None` of the salik forms
OrNone(v) == IF v = "" THEN NoVia ELSE v

\* POST /fines/add/<car_id>/<customer_id>: paid and settled_via are taken
\* from the form as they are
add_fine(car_id, customer_id, amount, paid, settled_via) ==
    /\ pc = "idle"
    /\ ChargeRows < MaxCharges
    /\ car_id \in cars /\ customer_id \in customers
    /\ fines' = fines @@
          (NextId(fines) :> NewCharge(car_id, customer_id, amount, paid, settled_via))
    /\ resp' = Response("add_fine", "ok", NoId, NoId)
    /\ UNCHANGED <<today, bookings, defleeted, car_order, cars, customers, rentals, payments, damages, salik, pc, sess, inflight>>

\* POST /fines/edit/<fine_id>
edit_fine(f, amount, paid, settled_via) ==
    /\ pc = "idle"
    /\ f \in DOMAIN fines
    /\ fines' = [fines EXCEPT ![f] =
                    [@ EXCEPT !.amount = amount, !.paid = paid,
                              !.settled_via = settled_via]]
    /\ resp' = Response("edit_fine", "ok", NoId, NoId)
    /\ UNCHANGED <<today, bookings, defleeted, car_order, cars, customers, rentals, payments, damages, salik, pc, sess, inflight>>

\* POST /damages/add/<car_id>/<customer_id>
add_damage(car_id, customer_id, amount, paid, settled_via) ==
    /\ pc = "idle"
    /\ ChargeRows < MaxCharges
    /\ car_id \in cars /\ customer_id \in customers
    /\ damages' = damages @@
          (NextId(damages) :> NewCharge(car_id, customer_id, amount, paid, settled_via))
    /\ resp' = Response("add_damage", "ok", NoId, NoId)
    /\ UNCHANGED <<today, bookings, defleeted, car_order, cars, customers, rentals, payments, fines, salik, pc, sess, inflight>>

\* POST /damages/edit/<damage_id>
edit_damage(d, amount, paid, settled_via) ==
    /\ pc = "idle"
    /\ d \in DOMAIN damages
    /\ damages' = [damages EXCEPT ![d] =
                      [@ EXCEPT !.amount = amount, !.paid = paid,
                                !.settled_via = settled_via]]
    /\ resp' = Response("edit_damage", "ok", NoId, NoId)
    /\ UNCHANGED <<today, bookings, defleeted, car_order, cars, customers, rentals, payments, fines, salik, pc, sess, inflight>>

\* POST /salik/add/<rental_id>: the entry takes the rental's car
add_salik(r, amount, paid, settled_via) ==
    /\ pc = "idle"
    /\ ChargeRows < MaxCharges
    /\ r \in DOMAIN rentals
    /\ salik' = salik @@
          (NextId(salik) :>
             NewSalik(rentals[r].car_id, r, amount, paid, OrNone(settled_via)))
    /\ resp' = Response("add_salik", "ok", r, NoId)
    /\ UNCHANGED <<today, bookings, defleeted, car_order, cars, customers, rentals, payments, fines, damages, pc, sess, inflight>>

\* POST /salik/edit/<salik_id>
edit_salik(s, amount, paid, settled_via) ==
    /\ pc = "idle"
    /\ s \in DOMAIN salik
    /\ salik' = [salik EXCEPT ![s] =
                    [@ EXCEPT !.amount = amount, !.paid = paid,
                              !.settled_via = OrNone(settled_via)]]
    /\ resp' = Response("edit_salik", "ok", NoId, NoId)
    /\ UNCHANGED <<today, bookings, defleeted, car_order, cars, customers, rentals, payments, fines, damages, pc, sess, inflight>>

(* ------------------------ outstanding charges -------------------------- *)
\* faulty variant: the car of the charge is not compared, so every unpaid
\* charge of the customer is gathered
OutstandingOfCustomer(t, R) ==
    {c \in DOMAIN t : t[c].customer_id = R.customer_id /\ ~t[c].paid}

\* [f for f in rental.customer.fines if f.car_id == rental.car_id and not f.paid]
\* over the table t (fines or damages) for the rental row R
OutstandingOf(t, R) ==
    {c \in DOMAIN t : /\ t[c].customer_id = R.customer_id
                      /\ t[c].car_id = R.car_id
                      /\ ~t[c].paid}

\* [s for s in rental.salik_entries if not s.paid] for the rental with key r
OutstandingSalik(t, r) ==
    {s \in DOMAIN t : t[s].rental_id = r /\ ~t[s].paid}

\* faulty variant: the toll entries are left out of the total
TotalChargesNoSalik(r) ==
    SumAmounts(fines, OutstandingOf(fines, rentals[r]))
      + SumAmounts(damages, OutstandingOf(damages, rentals[r]))

\* total_charges of settle_rental
TotalCharges(r) ==
    SumAmounts(fines, OutstandingOf(fines, rentals[r]))
      + SumAmounts(damages, OutstandingOf(damages, rentals[r]))
      + SumAmounts(salik, OutstandingSalik(salik, r))

\* refundable = max(deposit - total_charges, 0)
Refundable(deposit, total_charges) == Max2(deposit - total_charges, 0)

\* faulty variant: the rows are marked paid but settled_via is left as it was
MarkedPaidOnly(t, S, via) ==
    [c \in DOMAIN t |-> IF c \in S THEN [t[c] EXCEPT !.paid = TRUE] ELSE t[c]]

\* the table t with the rows S marked paid and settled via `via`
Marked(t, S, via) ==
    [c \in DOMAIN t |->
        IF c \in S THEN [t[c] EXCEPT !.paid = TRUE, !.settled_via = via]
        ELSE t[c]]

\* faulty variant: the end date is set to the day of the settlement whether or
\* not the rental already had one
SettledRowClosing(R, refundable, day) ==
    [R EXCEPT !.deposit_refunded = TRUE,
              !.deposit_refunded_amount = refundable,
              !.deposit_refund_date = day,
              !.end_date = day,
              !.contract_type = "fixed"]

\* the rental row after the deposit refund is recorded; an open rental is
\* closed today
SettledRow(R, refundable, day) ==
    [R EXCEPT !.deposit_refunded = TRUE,
              !.deposit_refunded_amount = refundable,
              !.deposit_refund_date = day,
              !.end_date = IF R.end_date = NoDate THEN day ELSE R.end_date,
              !.contract_type = IF R.end_date = NoDate THEN "fixed"
                                ELSE R.contract_type]

(* ----------------------------- settlement ------------------------------ *)
\* POST /rental/settle/<rental_id>. rental.customer is None when the
\* customer row is gone: gathering the charges then raises before anything
\* is written
settle_rental(r) ==
    /\ pc = "idle"
    /\ r \in DOMAIN rentals
    /\ IF rentals[r].customer_id \notin customers
       THEN /\ resp' = Response("settle_rental", "error", r, NoId)
            /\ UNCHANGED <<rentals, fines, damages, salik>>
       ELSE /\ fines' = Marked(fines, OutstandingOf(fines, rentals[r]), "deposit")
            /\ damages' = Marked(damages, OutstandingOf(damages, rentals[r]), "deposit")
            /\ salik' = Marked(salik, OutstandingSalik(salik, r), "deposit")
            /\ rentals' = [rentals EXCEPT ![r] =
                  SettledRow(@, Refundable(OrZero(@.deposit), TotalCharges(r)), today)]
            /\ resp' = Response("settle_rental", "ok", r, NoId)
    /\ UNCHANGED <<today, bookings, defleeted, car_order, cars, customers, payments, pc, sess, inflight>>

\* faulty variant: the marking loops run before the request method is tested,
\* so the confirmation page already marks the fines
settle_rental_preview_marking(r) ==
    /\ pc = "idle"
    /\ r \in DOMAIN rentals
    /\ rentals[r].customer_id \in customers
    /\ fines' = Marked(fines, OutstandingOf(fines, rentals[r]), "deposit")
    /\ resp' = [Response("settle_rental_preview", "ok", r, NoId)
                   EXCEPT !.view =
                      [outstanding_fines |-> OutstandingOf(fines, rentals[r]),
                       outstanding_damages |-> OutstandingOf(damages, rentals[r]),
                       outstanding_salik |-> OutstandingSalik(salik, r),
                       total_charges |-> TotalCharges(r),
                       refundable |-> Refundable(OrZero(rentals[r].deposit),
                                                 TotalCharges(r))]]
    /\ UNCHANGED <<today, bookings, defleeted, car_order, cars, customers,
                   rentals, payments, damages, salik, pc, sess, inflight>>

\* GET /rental/settle/<rental_id>: the confirmation page with the outstanding
\* charges, their total and the refundable amount; nothing is written
settle_rental_preview(r) ==
    /\ pc = "idle"
    /\ r \in DOMAIN rentals
    /\ IF rentals[r].customer_id \notin customers
       THEN resp' = Response("settle_rental_preview", "error", r, NoId)
       ELSE resp' = [Response("settle_rental_preview", "ok", r, NoId)
                        EXCEPT !.view =
                           [outstanding_fines |-> OutstandingOf(fines, rentals[r]),
                            outstanding_damages |-> OutstandingOf(damages, rentals[r]),
                            outstanding_salik |-> OutstandingSalik(salik, r),
                            total_charges |-> TotalCharges(r),
                            refundable |-> Refundable(OrZero(rentals[r].deposit),
                                                      TotalCharges(r))]]
    /\ UNCHANGED <<today, bookings, defleeted, car_order, cars, customers,
                   rentals, payments, fines, damages, salik, pc, sess, inflight>>

(* ------------------- settlement, statement by statement ---------------- *)
\* The POST branch of settle_rental as the unit of work runs it: the handler
\* changes the objects of its session one loop after the other, and only the
\* final db.session.commit() writes them to the store. A statement that
\* raises (the store is unavailable, say) ends the request: the session is
\* removed and its pending changes are rolled back.

\* the session of a request that holds no objects
NoSession ==
    [rental |-> NoId, rentals |-> EmptyTable, fines |-> EmptyTable,
     damages |-> EmptyTable, salik |-> EmptyTable,
     outstanding_fines |-> {}, outstanding_damages |-> {},
     outstanding_salik |-> {}, refundable |-> 0]

\* lines 1120-1130: load the rental, gather the outstanding charges and
\* compute the refund
txn_begin(r) ==
    /\ pc = "idle"
    /\ r \in DOMAIN rentals
    /\ rentals[r].customer_id \in customers
    /\ sess' = [rental |-> r, rentals |-> rentals, fines |-> fines,
                damages |-> damages, salik |-> salik,
                outstanding_fines |-> OutstandingOf(fines, rentals[r]),
                outstanding_damages |-> OutstandingOf(damages, rentals[r]),
                outstanding_salik |-> OutstandingSalik(salik, r),
                refundable |-> Refundable(OrZero(rentals[r].deposit), TotalCharges(r))]
    /\ pc' = "fines"
    /\ UNCHANGED <<today, bookings, defleeted, car_order, cars, customers, rentals, payments, fines, damages,
                   salik, resp, inflight>>

\* faulty variant: the handler commits the fines as soon as they are marked
txn_mark_fines_committing ==
    /\ pc = "fines"
    /\ sess' = [sess EXCEPT !.fines = Marked(@, sess.outstanding_fines, "deposit")]
    /\ fines' = Marked(sess.fines, sess.outstanding_fines, "deposit")
    /\ pc' = "damages"
    /\ UNCHANGED <<today, bookings, defleeted, car_order, cars, customers, rentals, payments, damages, salik, resp, inflight>>

\* lines 1133-1135
txn_mark_fines ==
    /\ pc = "fines"
    /\ sess' = [sess EXCEPT !.fines = Marked(@, sess.outstanding_fines, "deposit")]
    /\ pc' = "damages"
    /\ UNCHANGED <<today, bookings, defleeted, car_order, cars, customers, rentals, payments, fines, damages,
                   salik, resp, inflight>>

\* lines 1136-1138
txn_mark_damages ==
    /\ pc = "damages"
    /\ sess' = [sess EXCEPT !.damages = Marked(@, sess.outstanding_damages, "deposit")]
    /\ pc' = "salik"
    /\ UNCHANGED <<today, bookings, defleeted, car_order, cars, customers, rentals, payments, fines, damages,
                   salik, resp, inflight>>

\* lines 1140-1142
txn_mark_salik ==
    /\ pc = "salik"
    /\ sess' = [sess EXCEPT !.salik = Marked(@, sess.outstanding_salik, "deposit")]
    /\ pc' = "rental"
    /\ UNCHANGED <<today, bookings, defleeted, car_order, cars, customers, rentals, payments, fines, damages,
                   salik, resp, inflight>>

\* lines 1143-1150
txn_mark_rental ==
    /\ pc = "rental"
    /\ sess' = [sess EXCEPT !.rentals[sess.rental] =
                    SettledRow(@, sess.refundable, today)]
    /\ pc' = "commit"
    /\ UNCHANGED <<today, bookings, defleeted, car_order, cars, customers, rentals, payments, fines, damages,
                   salik, resp, inflight>>

\* line 1151: db.session.commit() writes every pending change in one
\* transaction
txn_commit ==
    /\ pc = "commit"
    /\ rentals' = sess.rentals
    /\ fines' = sess.fines
    /\ damages' = sess.damages
    /\ salik' = sess.salik
    /\ resp' = Response("settle_rental", "ok", sess.rental, NoId)
    /\ pc' = "idle"
    /\ sess' = NoSession
    /\ UNCHANGED <<today, bookings, defleeted, car_order, cars, customers, payments, inflight>>

\* a statement of the POST branch raises: the request ends with an error
\* and the session is discarded with everything it had pending
txn_fail ==
    /\ pc # "idle"
    /\ resp' = [Response("settle_rental", "error", sess.rental, NoId)
                   EXCEPT !.at = pc]
    /\ pc' = "idle"
    /\ sess' = NoSession
    /\ UNCHANGED <<today, bookings, defleeted, car_order, cars, customers, rentals, payments, fines, damages, salik, inflight>>

(* ------------------------------ payments ------------------------------- *)
\* faulty variant: a payment entered without a selection is matched
\* automatically to the rental's outstanding fines of the same amount
add_payment_matching(r, amount, fine_ids, damage_ids, salik_ids) ==
    /\ pc = "idle"
    /\ Cardinality(DOMAIN payments) < MaxPayments
    /\ r \in DOMAIN rentals
    /\ rentals[r].customer_id \in customers
    /\ payments' = payments @@
          (NextId(payments) :> [rental_id |-> r, amount |-> amount])
    /\ fines' = Marked(fines,
                       (fine_ids \cap DOMAIN fines)
                         \cup {f \in OutstandingOf(fines, rentals[r]) :
                                  fines[f].amount = amount},
                       "rent")
    /\ damages' = Marked(damages, damage_ids \cap DOMAIN damages, "rent")
    /\ salik' = Marked(salik, salik_ids \cap DOMAIN salik, "rent")
    /\ resp' = Response("add_payment", "ok", r, NoId)
    /\ UNCHANGED <<today, bookings, defleeted, car_order, cars, customers, rentals, pc, sess, inflight>>

\* POST /payments/add/<rental_id>: the payment is inserted and every selected
\* id that names an existing row is marked paid via rent
add_payment(r, amount, fine_ids, damage_ids, salik_ids) ==
    /\ pc = "idle"
    /\ Cardinality(DOMAIN payments) < MaxPayments
    /\ r \in DOMAIN rentals
    /\ IF rentals[r].customer_id \notin customers
       THEN /\ resp' = Response("add_payment", "error", r, NoId)
            /\ UNCHANGED <<payments, fines, damages, salik>>
       ELSE /\ payments' = payments @@
                  (NextId(payments) :> [rental_id |-> r, amount |-> amount])
            /\ fines' = Marked(fines, fine_ids \cap DOMAIN fines, "rent")
            /\ damages' = Marked(damages, damage_ids \cap DOMAIN damages, "rent")
            /\ salik' = Marked(salik, salik_ids \cap DOMAIN salik, "rent")
            /\ resp' = Response("add_payment", "ok", r, NoId)
    /\ UNCHANGED <<today, bookings, defleeted, car_order, cars, customers, rentals, pc, sess, inflight>>

(* ------------------------- rental due summary -------------------------- *)
\* `rental.end_date if rental.end_date and rental.end_date < today else today`
PeriodEnd(R, asOf) ==
    IF R.end_date # NoDate /\ R.end_date < asOf THEN R.end_date ELSE asOf

\* `rental.billing_interval_days or 30`: a NULL or zero interval counts as 30
OrDefaultInterval(x) == IF x = NoAmount \/ x = 0 THEN 30 ELSE x

\* faulty variant: only the completed intervals are counted
IntervalsCompleted(R, asOf) ==
    (PeriodEnd(R, asOf) - R.start_date) \div OrDefaultInterval(R.billing_interval_days)

\* faulty variant: the operands of the subtraction are exchanged
IntervalsReversed(R, asOf) ==
    ((R.start_date - PeriodEnd(R, asOf))
        \div OrDefaultInterval(R.billing_interval_days)) + 1

\* intervals = (days_active // (billing_interval_days or 30)) + 1, with
\* Python's floor division
Intervals(R, asOf) ==
    ((PeriodEnd(R, asOf) - R.start_date)
        \div OrDefaultInterval(R.billing_interval_days)) + 1

\* `rental.actual_rent if rental.actual_rent is not None
\*  else rental.planned_rent or 0.0`
RentRate(R) ==
    IF R.actual_rent # NoAmount THEN R.actual_rent ELSE OrZero(R.planned_rent)

\* base_due = rent_rate * intervals
BaseDue(R, asOf) == RentRate(R) * Intervals(R, asOf)

\* sum(p.amount or 0 for p in rental.payments)
TotalPayments(r) ==
    SumAmounts(payments, {p \in DOMAIN payments : payments[p].rental_id = r})

\* faulty variant: already settled charges are billed again
DueFiguresAllCharges(r, asOf) ==
    LET base_due == BaseDue(rentals[r], asOf)
        charges_due ==
            SumAmounts(fines, {f \in DOMAIN fines :
                                  /\ fines[f].customer_id = rentals[r].customer_id
                                  /\ fines[f].car_id = rentals[r].car_id})
              + SumAmounts(damages, OutstandingOf(damages, rentals[r]))
              + SumAmounts(salik, OutstandingSalik(salik, r))
    IN [base_due |-> base_due,
        intervals |-> Intervals(rentals[r], asOf),
        charges_due |-> charges_due,
        total_payments |-> TotalPayments(r),
        due_amount |-> base_due + charges_due - TotalPayments(r),
        period_end |-> PeriodEnd(rentals[r], asOf)]

\* the figures rental_due_summary hands to its template for the rental r on
\* the day asOf
DueFigures(r, asOf) ==
    LET base_due == BaseDue(rentals[r], asOf)
        charges_due == TotalCharges(r)
    IN [base_due |-> base_due,
        intervals |-> Intervals(rentals[r], asOf),
        charges_due |-> charges_due,
        total_payments |-> TotalPayments(r),
        due_amount |-> base_due + charges_due - TotalPayments(r),
        period_end |-> PeriodEnd(rentals[r], asOf)]

\* GET /rental/due/<rental_id>: nothing is written. rental.customer is None
\* when the customer row is gone, and gathering the charges then raises
rental_due_summary(r) ==
    /\ pc = "idle"
    /\ r \in DOMAIN rentals
    /\ IF rentals[r].customer_id \notin customers
       THEN resp' = Response("rental_due_summary", "error", r, NoId)
       ELSE resp' = [Response("rental_due_summary", "ok", r, NoId)
                        EXCEPT !.view = DueFigures(r, today)]
    /\ UNCHANGED <<today, bookings, defleeted, car_order, cars, customers,
                   rentals, payments, fines, damages, salik, pc, sess, inflight>>

\* time passes between two requests: date.today() moves on to the day d
Advance(d) ==
    /\ pc = "idle"
    /\ d > today
    /\ today' = d
    /\ UNCHANGED <<cars, customers, rentals, payments, fines, damages, salik,
                   bookings, defleeted, car_order, resp, pc, sess, inflight>>

(* ------------------------- fleet order, defleet ------------------------ *)
\* func.max(CarOrder.order_index) or 0
MaxOrderIndex(co) ==
    IF DOMAIN co = {} THEN 0 ELSE MaxOf({co[k].order_index : k \in DOMAIN co})

\* the first loop of ensure_car_order: every car of S, in key order, gets an
\* order row after the last one
RECURSIVE WithOrderRows(_, _)
WithOrderRows(co, S) ==
    IF S = {} THEN co
    ELSE LET c == MinOf(S)
         IN WithOrderRows(co @@ (NextId(co) :>
                                   [car_id |-> c,
                                    order_index |-> MaxOrderIndex(co) + 1]),
                          S \ {c})

\* the second loop of ensure_car_order: the indexes become 1..N in the
\* order they had
Normalised(co) ==
    [k \in DOMAIN co |->
        [co[k] EXCEPT !.order_index =
            Cardinality({j \in DOMAIN co :
                            co[j].order_index < co[k].order_index}) + 1]]

\* ensure_car_order()
EnsureCarOrder(co) ==
    Normalised(WithOrderRows(co,
        {c \in cars : \A k \in DOMAIN co : co[k].car_id # c}))

\* car.defleet_record is not None
IsDefleeted(c) == \E k \in DOMAIN defleeted : defleeted[k].car_id = c

\* faulty variant: a rental that ends today no longer counts as active
defleet_car_ending(c) ==
    /\ pc = "idle"
    /\ c \in cars
    /\ IF \E r \in DOMAIN rentals :
             /\ rentals[r].car_id = c
             /\ ~rentals[r].deposit_refunded
             /\ (rentals[r].end_date = NoDate \/ rentals[r].end_date > today)
       THEN /\ resp' = Response("defleet_car", "active_rental", NoId, NoId)
            /\ UNCHANGED defleeted
       ELSE IF IsDefleeted(c)
            THEN /\ resp' = Response("defleet_car", "already", NoId, NoId)
                 /\ UNCHANGED defleeted
            ELSE /\ defleeted' = defleeted @@
                       (NextId(defleeted) :> [car_id |-> c, date |-> today])
                 /\ resp' = Response("defleet_car", "ok", NoId, NoId)
    /\ UNCHANGED <<today, bookings, car_order, cars, customers, rentals,
                   payments, fines, damages, salik, pc, sess, inflight>>

\* POST /cars/defleet/<car_id>: refused while a rental of the car is neither
\* settled nor over; a car that is already defleeted is left as it is
defleet_car(c) ==
    /\ pc = "idle"
    /\ c \in cars
    /\ IF \E r \in DOMAIN rentals :
             /\ rentals[r].car_id = c
             /\ ~rentals[r].deposit_refunded
             /\ (rentals[r].end_date = NoDate \/ rentals[r].end_date >= today)
       THEN /\ resp' = Response("defleet_car", "active_rental", NoId, NoId)
            /\ UNCHANGED defleeted
       ELSE IF IsDefleeted(c)
            THEN /\ resp' = Response("defleet_car", "already", NoId, NoId)
                 /\ UNCHANGED defleeted
            ELSE /\ defleeted' = defleeted @@
                       (NextId(defleeted) :> [car_id |-> c, date |-> today])
                 /\ resp' = Response("defleet_car", "ok", NoId, NoId)
    /\ UNCHANGED <<today, bookings, car_order, cars, customers, rentals,
                   payments, fines, damages, salik, pc, sess, inflight>>

(* ---------------------- bookings and availability ---------------------- *)
\* POST /bookings/add: the first rental of the car that has started by the
\* booking's start and has not ended before it is looked up; the booking is
\* refused only when that rental has an end date
add_booking(car_id, customer_id, start_date, end_date) ==
    /\ pc = "idle"
    /\ LET active == {r \in DOMAIN rentals :
                         /\ rentals[r].car_id = car_id
                         /\ (rentals[r].end_date = NoDate
                               \/ rentals[r].end_date >= start_date)
                         /\ rentals[r].start_date <= start_date}
           conflict_rental == IF active = {} THEN NoId ELSE MinOf(active)
       IN IF conflict_rental # NoId /\ rentals[conflict_rental].end_date # NoDate
          THEN /\ resp' = Response("add_booking", "overlap", NoId, conflict_rental)
               /\ UNCHANGED bookings
          ELSE /\ Cardinality(DOMAIN bookings) < MaxBookings
               /\ bookings' = bookings @@
                     (NextId(bookings) :>
                        [car_id |-> car_id, customer_id |-> customer_id,
                         start_date |-> start_date, end_date |-> end_date])
               /\ resp' = Response("add_booking", "ok", NoId, NoId)
    /\ UNCHANGED <<today, defleeted, car_order, cars, customers, rentals,
                   payments, fines, damages, salik, pc, sess, inflight>>

\* date_in_range(d, start, end): start <= d <= end
date_in_range(d, start, end) == start <= d /\ d <= end

\* the rentals of the car c that are active on the day
ActiveRentals(c, day) ==
    {r \in DOMAIN rentals :
        /\ rentals[r].car_id = c
        /\ (rentals[r].end_date = NoDate \/ rentals[r].end_date >= day)
        /\ rentals[r].start_date <= day}

\* faulty variant: a rental that ends on the day no longer counts
is_rented_today_ending(c, day) ==
    \E r \in DOMAIN rentals :
        /\ rentals[r].car_id = c
        /\ (rentals[r].end_date = NoDate \/ rentals[r].end_date > day)
        /\ rentals[r].start_date <= day

\* is_rented_today(car, today)
is_rented_today(c, day) == ActiveRentals(c, day) # {}

\* the bookings of the car c that cover the day
ActiveBookings(c, day) ==
    {b \in DOMAIN bookings :
        /\ bookings[b].car_id = c
        /\ date_in_range(day, bookings[b].start_date, bookings[b].end_date)}

\* is_booked_today(car, today)
is_booked_today(c, day) == ActiveBookings(c, day) # {}

\* the row of the availability page for the car c: the status and, from the
\* first active rental or booking, when the car is free again
AvailabilityRow(c, day) ==
    IF is_rented_today(c, day)
    THEN [car |-> c, status |-> "Rented",
          info |-> IF ActiveRentals(c, day) = {} THEN [text |-> "", date |-> NoDate]
                   ELSE LET R == rentals[MinOf(ActiveRentals(c, day))]
                        IN IF R.end_date # NoDate
                           THEN [text |-> "Available from", date |-> R.end_date + 1]
                           ELSE [text |-> "Open ended", date |-> NoDate]]
    ELSE IF is_booked_today(c, day)
    THEN [car |-> c, status |-> "Booked",
          info |-> [text |-> "Booked until",
                    date |-> bookings[MinOf(ActiveBookings(c, day))].end_date]]
    ELSE [car |-> c, status |-> "Available", info |-> [text |-> "", date |-> NoDate]]

\* the cars that are not defleeted, in the order of the order table co
ListedCars(co) ==
    LET listed == {c \in cars : ~IsDefleeted(c)}
        idx(c) == co[CHOOSE k \in DOMAIN co : co[k].car_id = c].order_index
    IN [i \in 1..Cardinality(listed) |->
          CHOOSE c \in listed :
             Cardinality({x \in listed : idx(x) < idx(c)}) = i - 1]

\* GET /availability: the order table is completed and normalised, then
\* every car that is not defleeted gets its row for today
availability ==
    /\ pc = "idle"
    /\ car_order' = EnsureCarOrder(car_order)
    /\ resp' = [Response("availability", "ok", NoId, NoId)
                   EXCEPT !.view =
                      [rows |-> LET listed == ListedCars(EnsureCarOrder(car_order))
                                IN [i \in DOMAIN listed |->
                                      AvailabilityRow(listed[i], today)],
                       today |-> today]]
    /\ UNCHANGED <<today, bookings, defleeted, cars, customers, rentals,
                   payments, fines, damages, salik, pc, sess, inflight>>

(* ---------------------- cars and customers come and go ----------------- *)
\* primary key of the next inserted car or customer (largest key + 1)
NextKey(S) == IF S = {} THEN 1 ELSE MaxOf(S) + 1

\* the table t after the unit of work has detached the children of the
\* deleted parent k: the foreign key column col of every row that named it
\* is set to NULL
Detached(t, col, k) ==
    [x \in DOMAIN t |->
        IF t[x][col] = k THEN [t[x] EXCEPT ![col] = NoId] ELSE t[x]]

\* POST /customers/add
add_customer ==
    /\ pc = "idle"
    /\ NextKey(customers) \in CustomerIds
    /\ customers' = customers \cup {NextKey(customers)}
    /\ resp' = Response("add_customer", "ok", NoId, NoId)
    /\ UNCHANGED <<today, bookings, defleeted, car_order, cars, rentals,
                   payments, fines, damages, salik, pc, sess, inflight>>

\* POST /customers/delete/<customer_id>: the row is deleted; the rentals,
\* fines, damages and bookings of the customer stay, with customer_id NULL
delete_customer(cu) ==
    /\ pc = "idle"
    /\ cu \in customers
    /\ customers' = customers \ {cu}
    /\ rentals' = Detached(rentals, "customer_id", cu)
    /\ fines' = Detached(fines, "customer_id", cu)
    /\ damages' = Detached(damages, "customer_id", cu)
    /\ bookings' = Detached(bookings, "customer_id", cu)
    /\ resp' = Response("delete_customer", "ok", NoId, NoId)
    /\ UNCHANGED <<today, defleeted, car_order, cars, payments, salik, pc, sess, inflight>>

\* POST /cars/add: the car is inserted and ensure_car_order() gives it its
\* order row and normalises the indexes
add_car ==
    /\ pc = "idle"
    /\ NextKey(cars) \in CarIds
    /\ cars' = cars \cup {NextKey(cars)}
    /\ car_order' = Normalised(WithOrderRows(car_order,
          {c \in cars \cup {NextKey(cars)} :
              \A k \in DOMAIN car_order : car_order[k].car_id # c}))
    /\ resp' = Response("add_car", "ok", NoId, NoId)
    /\ UNCHANGED <<today, bookings, defleeted, customers, rentals, payments,
                   fines, damages, salik, pc, sess, inflight>>

\* POST /cars/delete/<car_id>: the order and defleet rows of the car are
\* deleted with it, and its rentals, fines and damages stay with car_id
\* NULL. Salik.car_id and Booking.car_id are NOT NULL, so for a car with toll
\* entries or bookings the flush fails and everything is rolled back
delete_car(c) ==
    /\ pc = "idle"
    /\ c \in cars
    /\ IF \/ \E x \in DOMAIN salik : salik[x].car_id = c
          \/ \E b \in DOMAIN bookings : bookings[b].car_id = c
       THEN /\ resp' = Response("delete_car", "error", NoId, NoId)
            /\ UNCHANGED <<cars, car_order, defleeted, rentals, fines, damages>>
       ELSE /\ cars' = cars \ {c}
            /\ car_order' = [k \in {x \in DOMAIN car_order : car_order[x].car_id # c}
                                |-> car_order[k]]
            /\ defleeted' = [k \in {x \in DOMAIN defleeted : defleeted[x].car_id # c}
                                |-> defleeted[k]]
            /\ rentals' = Detached(rentals, "car_id", c)
            /\ fines' = Detached(fines, "car_id", c)
            /\ damages' = Detached(damages, "car_id", c)
            /\ resp' = Response("delete_car", "ok", NoId, NoId)
    /\ UNCHANGED <<today, bookings, customers, payments, salik, pc, sess, inflight>>

(* ------------------------------- reports ------------------------------- *)
\* car.rentals
RentalsOfCar(c) == {r \in DOMAIN rentals : rentals[r].car_id = c}

\* `min(start_dates)` of the car's rentals, today when it has none
EarliestStart(c, day) ==
    IF RentalsOfCar(c) = {} THEN day
    ELSE MinOf({rentals[r].start_date : r \in RentalsOfCar(c)})

\* faulty variant: the last day of a rental is not counted
RentalDaysExclusive(R, day) ==
    (IF R.end_date # NoDate THEN R.end_date ELSE day) - R.start_date

\* `(e - s).days + 1` with `e = r.end_date or today`
RentalDays(R, day) ==
    (IF R.end_date # NoDate THEN R.end_date ELSE day) - R.start_date + 1

\* the loop that adds up days_rented over the rentals S
RECURSIVE DaysRented(_, _)
DaysRented(S, day) ==
    IF S = {} THEN 0
    ELSE LET r == MinOf(S)
         IN RentalDays(rentals[r], day) + DaysRented(S \ {r}, day)

\* total_period = (today - earliest).days + 1, raised to 1 when below
TotalPeriod(c, day) ==
    LET total_period == day - EarliestStart(c, day) + 1
    IN IF total_period < 1 THEN 1 ELSE total_period

\* round(n / d * 100, 2) for d > 0, in hundredths of a percent: the nearest
\* hundredth, and the even one when n / d * 100 lies halfway between two
RoundPct(n, d) ==
    LET twice == 20000 * n + d
        q == twice \div (2 * d)
    IN IF twice % (2 * d) = 0 /\ q % 2 = 1 THEN q - 1 ELSE q

\* the payments of the rentals of the car c
PaymentsOfCar(c) ==
    {p \in DOMAIN payments : /\ payments[p].rental_id \in DOMAIN rentals
                             /\ rentals[payments[p].rental_id].car_id = c}

\* the row of the report for the car c: utilisation, revenue from the
\* payments of its rentals, and the fines, damages and toll costs among its
\* expenses (the cars of the model carry no maintenance expenses and no
\* purchase price)
ReportRow(c, day) ==
    [car |-> c,
     utilisation_pct |-> RoundPct(DaysRented(RentalsOfCar(c), day), TotalPeriod(c, day)),
     days_rented |-> DaysRented(RentalsOfCar(c), day),
     total_revenue |-> SumAmounts(payments, PaymentsOfCar(c)),
     total_expenses |->
         SumAmounts(fines, {f \in DOMAIN fines : fines[f].car_id = c})
           + SumAmounts(damages, {d \in DOMAIN damages : damages[d].car_id = c})
           + SumAmounts(salik, {s \in DOMAIN salik : salik[s].car_id = c})]

\* GET /reports: one row per car; nothing is written
reports ==
    /\ pc = "idle"
    /\ resp' = [Response("reports", "ok", NoId, NoId)
                   EXCEPT !.view = [rows |-> [c \in cars |-> ReportRow(c, today)],
                                    today |-> today]]
    /\ UNCHANGED <<today, bookings, defleeted, car_order, cars, customers,
                   rentals, payments, fines, damages, salik, pc, sess, inflight>>

(* --------------------------- specifications ---------------------------- *)

Init ==
    /\ today = 1
    /\ cars = CarIds
    /\ customers = CustomerIds
    /\ rentals = EmptyTable
    /\ payments = EmptyTable
    /\ fines = EmptyTable
    /\ damages = EmptyTable
    /\ salik = EmptyTable
    /\ bookings = EmptyTable
    /\ defleeted = EmptyTable
    /\ car_order = EmptyTable
    /\ resp = Response("init", "ok", NoId, NoId)
    /\ pc = "idle"
    /\ sess = NoSession
    /\ inflight = NoRequests

\* the amounts entered on the forms: the deposit, a fine, a damage and a toll
\* cost (the settlement scenario of the specification, in hundreds)
RentalDeposits == {50}
\* the customer chosen on the rental form where the customer plays no part
RentalCustomers == {1}
FineAmounts == {12}
DamageAmounts == {40}
SalikAmounts == {3}
PaymentAmounts == {30}

\* rental create, edit, settle and delete with every car and date range
NextRental ==
    \/ \E c \in CarIds, cu \in RentalCustomers, s \in Days, e \in DaysOrNone,
          d \in RentalDeposits : add_rental(c, cu, s, e, NoAmount, NoAmount, d)
    \/ \E r \in DOMAIN rentals, c \in CarIds, s \in Days, e \in DaysOrNone :
          edit_rental(r, c, rentals[r].customer_id, s, e, rentals[r].planned_rent,
                      rentals[r].actual_rent, rentals[r].deposit)
    \/ \E r \in DOMAIN rentals : settle_rental(r)
    \/ \E r \in DOMAIN rentals : delete_rental(r)

SpecRental == Init /\ [][NextRental]_vars

\* rental creation against rentals made by earlier creations, some of them
\* settled or deleted since
NextAddRental ==
    \/ \E c \in CarIds, cu \in RentalCustomers, s \in Days, e \in DaysOrNone,
          d \in RentalDeposits : add_rental(c, cu, s, e, NoAmount, NoAmount, d)
    \/ \E r \in DOMAIN rentals : settle_rental(r)
    \/ \E r \in DOMAIN rentals : delete_rental(r)

SpecAddRental == Init /\ [][NextAddRental]_vars

\* settlement: open-ended rentals on either car, charges entered as
\* outstanding on either car and for either customer, payments that settle
\* any selection of charges via rent, and settlement commits
NextSettle ==
    \/ \E c \in CarIds, cu \in RentalCustomers, d \in RentalDeposits :
          add_rental(c, cu, 1, NoDate, NoAmount, NoAmount, d)
    \/ \E c \in CarIds, a \in FineAmounts : add_fine(c, 1, a, FALSE, NoVia)
    \/ \E cu \in CustomerIds, a \in DamageAmounts : add_damage(1, cu, a, FALSE, NoVia)
    \/ \E r \in DOMAIN rentals, a \in SalikAmounts : add_salik(r, a, FALSE, NoVia)
    \/ \E r \in DOMAIN rentals, a \in PaymentAmounts :
          \E fs \in SUBSET DOMAIN fines, ds \in SUBSET DOMAIN damages,
             ss \in SUBSET DOMAIN salik : add_payment(r, a, fs, ds, ss)
    \/ \E r \in DOMAIN rentals : settle_rental(r)

SpecSettle == Init /\ [][NextSettle]_vars

\* the values the charge forms can send for settled_via: absent, empty,
\* "rent" or "deposit"
FormVias == {NoVia, "", "rent", "deposit"}

\* the charge ledger of one rental: charges are created and edited with any
\* paid flag and settled_via the forms can send, payments settle selections
\* via rent, and the rental is settled
NextLedger ==
    \/ \E cu \in RentalCustomers, d \in RentalDeposits :
          add_rental(1, cu, 1, NoDate, NoAmount, NoAmount, d)
    \/ \E r \in DOMAIN rentals : settle_rental(r)
    \/ \E a \in FineAmounts, p \in BOOLEAN, v \in FormVias : add_fine(1, 1, a, p, v)
    \/ \E f \in DOMAIN fines, p \in BOOLEAN, v \in FormVias :
          edit_fine(f, fines[f].amount, p, v)
    \/ \E a \in DamageAmounts, p \in BOOLEAN, v \in FormVias : add_damage(1, 1, a, p, v)
    \/ \E d \in DOMAIN damages, p \in BOOLEAN, v \in FormVias :
          edit_damage(d, damages[d].amount, p, v)
    \/ \E r \in DOMAIN rentals, a \in SalikAmounts, p \in BOOLEAN, v \in FormVias :
          add_salik(r, a, p, v)
    \/ \E x \in DOMAIN salik, p \in BOOLEAN, v \in FormVias :
          edit_salik(x, salik[x].amount, p, v)
    \/ \E r \in DOMAIN rentals, a \in PaymentAmounts :
          \E fs \in SUBSET DOMAIN fines, ds \in SUBSET DOMAIN damages,
             ss \in SUBSET DOMAIN salik : add_payment(r, a, fs, ds, ss)

SpecLedger == Init /\ [][NextLedger]_vars

\* the life of a rental: created, edited (moved to another customer), paid,
\* charged, settled any number of times and deleted
NextLifecycle ==
    \/ \E c \in CarIds, cu \in RentalCustomers, d \in RentalDeposits :
          add_rental(c, cu, 1, NoDate, NoAmount, NoAmount, d)
    \/ \E r \in DOMAIN rentals, cu \in CustomerIds :
          edit_rental(r, rentals[r].car_id, cu, rentals[r].start_date,
                      rentals[r].end_date, rentals[r].planned_rent,
                      rentals[r].actual_rent, rentals[r].deposit)
    \/ \E r \in DOMAIN rentals : delete_rental(r)
    \/ \E r \in DOMAIN rentals : settle_rental(r)
    \/ \E a \in FineAmounts : add_fine(1, 1, a, FALSE, NoVia)
    \/ \E f \in DOMAIN fines, p \in BOOLEAN :
          edit_fine(f, fines[f].amount, p, NoVia)
    \/ \E r \in DOMAIN rentals, a \in PaymentAmounts :
          add_payment(r, a, {}, {}, {})

SpecLifecycle == Init /\ [][NextLifecycle]_vars

\* settlement run statement by statement, with a failure possible at every
\* statement, on a rental with any charges outstanding
NextAtomic ==
    \/ \E cu \in RentalCustomers, d \in RentalDeposits :
          add_rental(1, cu, 1, NoDate, NoAmount, NoAmount, d)
    \/ \E c \in CarIds, a \in FineAmounts : add_fine(c, 1, a, FALSE, NoVia)
    \/ \E a \in DamageAmounts : add_damage(1, 1, a, FALSE, NoVia)
    \/ \E r \in DOMAIN rentals, a \in SalikAmounts : add_salik(r, a, FALSE, NoVia)
    \/ \E r \in DOMAIN rentals : txn_begin(r)
    \/ txn_mark_fines
    \/ txn_mark_damages
    \/ txn_mark_salik
    \/ txn_mark_rental
    \/ txn_commit
    \/ txn_fail

SpecAtomic == Init /\ [][NextAtomic]_vars

\* the amounts entered on the payment form: nothing, the amount of a fine,
\* and an amount that matches no charge
AnyPaymentAmounts == {0, 12, 30}

\* payment entry on one rental with unpaid charges: payments of any amount,
\* with any selection of charges or none
NextPayment ==
    \/ \E cu \in RentalCustomers, d \in RentalDeposits :
          add_rental(1, cu, 1, NoDate, NoAmount, NoAmount, d)
    \/ \E a \in FineAmounts : add_fine(1, 1, a, FALSE, NoVia)
    \/ \E a \in DamageAmounts : add_damage(1, 1, a, FALSE, NoVia)
    \/ \E r \in DOMAIN rentals, a \in SalikAmounts : add_salik(r, a, FALSE, NoVia)
    \/ \E r \in DOMAIN rentals, a \in AnyPaymentAmounts :
          \E fs \in SUBSET DOMAIN fines, ds \in SUBSET DOMAIN damages,
             ss \in SUBSET DOMAIN salik : add_payment(r, a, fs, ds, ss)

SpecPayment == Init /\ [][NextPayment]_vars

\* the calendar of the billing runs: a first and a second day, the days 29,
\* 30 and 31 days after them, and the days 45 and 60 days after the first
DueDates == {1, 2, 31, 32, 46, 61}
DueDatesOrNone == DueDates \cup {NoDate}
\* planned_rent and actual_rent as the rental form stores them: left empty,
\* zero, a rate, and a rate entered with a minus sign
PlannedRents == {NoAmount, 20}
ActualRents == {NoAmount, 0, 30, -30}

\* one rental as add_rental stores it from any dates and rents of the form
\* (the first rental of a car is never refused), looked at on any day
InitRentDue ==
    /\ today \in DueDates
    /\ cars = CarIds
    /\ customers = CustomerIds
    /\ \E s \in DueDates, e \in DueDatesOrNone, p \in PlannedRents,
          a \in ActualRents, d \in RentalDeposits :
          rentals = (1 :> NewRental(1, 1, s, e, p, a, d))
    /\ payments = EmptyTable
    /\ fines = EmptyTable
    /\ damages = EmptyTable
    /\ salik = EmptyTable
    /\ bookings = EmptyTable
    /\ defleeted = EmptyTable
    /\ car_order = EmptyTable
    /\ resp = Response("init", "ok", NoId, NoId)
    /\ pc = "idle"
    /\ sess = NoSession
    /\ inflight = NoRequests

\* the due summary of a rental asked for as the days pass
NextRentDue ==
    \/ \E r \in DOMAIN rentals : rental_due_summary(r)
    \/ \E d \in DueDates : Advance(d)

SpecRentDue == InitRentDue /\ [][NextRentDue]_vars

\* the days of the billing history of a car: the first day and a day more
\* than one billing interval later
BillingDates == {1, 32}
BillingDatesOrNone == BillingDates \cup {NoDate}
\* the actual rent entered on the rental form
BilledRents == {30}

\* rentals of one car created, edited and settled with any of these dates,
\* and their due summaries asked for as the days pass
NextBilling ==
    \/ \E s \in BillingDates, e \in BillingDatesOrNone, a \in BilledRents,
          d \in RentalDeposits : add_rental(1, 1, s, e, NoAmount, a, d)
    \/ \E r \in DOMAIN rentals, s \in BillingDates, e \in BillingDatesOrNone :
          edit_rental(r, rentals[r].car_id, rentals[r].customer_id, s, e,
                      rentals[r].planned_rent, rentals[r].actual_rent,
                      rentals[r].deposit)
    \/ \E r \in DOMAIN rentals : settle_rental(r)
    \/ \E r \in DOMAIN rentals : rental_due_summary(r)
    \/ \E d \in BillingDates : Advance(d)

SpecBilling == Init /\ [][NextBilling]_vars

\* the balance of a rental: open-ended rentals at a rent of 30 on either
\* car, fines on either car, damages of either customer and toll entries,
\* all entered unpaid, payments that settle any selection of fines and toll
\* entries via rent, and the due summary on the first day and a month later
NextDue ==
    \/ \E c \in CarIds, cu \in RentalCustomers, a \in BilledRents,
          d \in RentalDeposits : add_rental(c, cu, 1, NoDate, NoAmount, a, d)
    \/ \E c \in CarIds, a \in FineAmounts : add_fine(c, 1, a, FALSE, NoVia)
    \/ \E cu \in CustomerIds, a \in DamageAmounts : add_damage(1, cu, a, FALSE, NoVia)
    \/ \E r \in DOMAIN rentals, a \in SalikAmounts : add_salik(r, a, FALSE, NoVia)
    \/ \E r \in DOMAIN rentals, a \in PaymentAmounts :
          \E fs \in SUBSET DOMAIN fines, ss \in SUBSET DOMAIN salik :
             add_payment(r, a, fs, {}, ss)
    \/ \E r \in DOMAIN rentals : rental_due_summary(r)
    \/ \E d \in BillingDates : Advance(d)

SpecDue == Init /\ [][NextDue]_vars

\* the confirmation page and the commit of a settlement: a rental with
\* fines, damages and toll entries outstanding, some of them paid via rent,
\* is previewed and settled in any order
NextPreview ==
    \/ \E cu \in RentalCustomers, d \in RentalDeposits :
          add_rental(1, cu, 1, NoDate, NoAmount, NoAmount, d)
    \/ \E c \in CarIds, a \in FineAmounts : add_fine(c, 1, a, FALSE, NoVia)
    \/ \E a \in DamageAmounts : add_damage(1, 1, a, FALSE, NoVia)
    \/ \E r \in DOMAIN rentals, a \in SalikAmounts : add_salik(r, a, FALSE, NoVia)
    \/ \E r \in DOMAIN rentals, a \in PaymentAmounts, fs \in SUBSET DOMAIN fines :
          add_payment(r, a, fs, {}, {})
    \/ \E r \in DOMAIN rentals : settle_rental_preview(r)
    \/ \E r \in DOMAIN rentals : settle_rental(r)

SpecPreview == Init /\ [][NextPreview]_vars

\* closing rentals: rentals of one car with and without an end date are
\* settled on the day they were entered or on a later day
NextClose ==
    \/ \E cu \in RentalCustomers, s \in Days, e \in DaysOrNone,
          d \in RentalDeposits : add_rental(1, cu, s, e, NoAmount, NoAmount, d)
    \/ \E r \in DOMAIN rentals : settle_rental(r)
    \/ Tick

SpecClose == Init /\ [][NextClose]_vars

\* the availability page over the days: car 1 is rented for single days or
\* without an end and booked with any dates, car 2 stays free
NextOccupancy ==
    \/ \E cu \in RentalCustomers, s \in Days, e \in DaysOrNone,
          d \in RentalDeposits :
          /\ e \in {s, NoDate}
          /\ add_rental(1, cu, s, e, NoAmount, NoAmount, d)
    \/ \E s \in Days, e \in Days : add_booking(1, NoId, s, e)
    \/ availability
    \/ Tick

SpecOccupancy == Init /\ [][NextOccupancy]_vars

\* the calendar of the utilisation report: the first of January, the last of
\* January and the first of February
ReportDates == {1, 31, 32}
ReportDatesOrNone == ReportDates \cup {NoDate}

\* the report over the days: rentals of either car with any of these dates,
\* fixed or open, and the report asked for as the days pass
NextReport ==
    \/ \E c \in CarIds, cu \in RentalCustomers, s \in ReportDates,
          e \in ReportDatesOrNone, d \in RentalDeposits :
          add_rental(c, cu, s, e, NoAmount, NoAmount, d)
    \/ reports
    \/ \E d \in ReportDates : Advance(d)

SpecReport == Init /\ [][NextReport]_vars

\* taking cars out of the fleet: rentals of car 1, for single days or without
\* an end, are entered and settled as the days pass, and either car is
\* defleeted at any moment
NextDefleet ==
    \/ \E cu \in RentalCustomers, s \in Days, e \in DaysOrNone,
          d \in RentalDeposits :
          /\ e \in {s, NoDate}
          /\ add_rental(1, cu, s, e, NoAmount, NoAmount, d)
    \/ \E r \in DOMAIN rentals : settle_rental(r)
    \/ \E c \in cars : defleet_car(c)
    \/ Tick

SpecDefleet == Init /\ [][NextDefleet]_vars

\* the deposit the rental form sends on a later edit: lowered or as it was
EditedDeposits == {20, 50}
\* the amount of a fine as float() takes it from the form: with either sign
SignedFineAmounts == {12, -12}

\* the deposit of a rental against its refund: open-ended rentals of car 1
\* are created, get fines of either sign, are settled, and have their
\* deposit edited before or after the settlement
NextDeposit ==
    \/ \E cu \in RentalCustomers, d \in RentalDeposits :
          add_rental(1, cu, 1, NoDate, NoAmount, NoAmount, d)
    \/ \E r \in DOMAIN rentals, d \in EditedDeposits :
          edit_rental(r, rentals[r].car_id, rentals[r].customer_id,
                      rentals[r].start_date, rentals[r].end_date,
                      rentals[r].planned_rent, rentals[r].actual_rent, d)
    \/ \E a \in SignedFineAmounts : add_fine(1, 1, a, FALSE, NoVia)
    \/ \E r \in DOMAIN rentals : settle_rental(r)

SpecDeposit == Init /\ [][NextDeposit]_vars

\* settlement next to other rentals: open-ended rentals on either car,
\* fines on either car entered unpaid or already paid via rent, damages of
\* either customer, toll entries on any rental and payments, with any rental
\* settled at any moment
NextFrame ==
    \/ \E c \in CarIds, cu \in RentalCustomers, d \in RentalDeposits :
          add_rental(c, cu, 1, NoDate, NoAmount, NoAmount, d)
    \/ \E c \in CarIds, a \in FineAmounts, p \in BOOLEAN :
          add_fine(c, 1, a, p, IF p THEN "rent" ELSE NoVia)
    \/ \E cu \in CustomerIds, a \in DamageAmounts : add_damage(1, cu, a, FALSE, NoVia)
    \/ \E r \in DOMAIN rentals, a \in SalikAmounts : add_salik(r, a, FALSE, NoVia)
    \/ \E r \in DOMAIN rentals, a \in PaymentAmounts : add_payment(r, a, {}, {}, {})
    \/ \E r \in DOMAIN rentals : settle_rental(r)

SpecFrame == Init /\ [][NextFrame]_vars

\* cars, customers and rentals created and deleted in any order: rentals
\* are entered for the cars and customers the form offers, cars are booked,
\* and any rental is settled at any moment
NextDelete ==
    \/ add_customer
    \/ add_car
    \/ \E c \in cars, cu \in customers, d \in RentalDeposits :
          add_rental(c, cu, 1, NoDate, NoAmount, NoAmount, d)
    \/ \E c \in cars : add_booking(c, NoId, 1, 1)
    \/ \E r \in DOMAIN rentals : delete_rental(r)
    \/ \E cu \in customers : delete_customer(cu)
    \/ \E c \in cars : delete_car(c)
    \/ \E r \in DOMAIN rentals : settle_rental(r)

SpecDelete == Init /\ [][NextDelete]_vars

\* rental creation by requests that run at the same time: each reads the
\* rentals of car 1 and inserts afterwards, in any interleaving
NextConcurrent ==
    \/ \E q \in Requests, cu \in RentalCustomers, s \in Days, e \in DaysOrNone,
          d \in RentalDeposits :
          add_rental_read(q, 1, cu, s, e, NoAmount, NoAmount, d)
    \/ \E q \in Requests : add_rental_insert(q)
    \/ \E r \in DOMAIN rentals : delete_rental(r)

SpecConcurrent == Init /\ [][NextConcurrent]_vars

(* ------------------------------- claims -------------------------------- *)
\* the dates [start, end-or-infinity] of rows A and B intersect
SharesDate(A, B) ==
    LET lo == IF A.start_date > B.start_date THEN A.start_date ELSE B.start_date
        aEnd == IF A.end_date = NoDate THEN DateMax ELSE A.end_date
        bEnd == IF B.end_date = NoDate THEN DateMax ELSE B.end_date
        hi == IF aEnd < bEnd THEN aEnd ELSE bEnd
    IN lo <= hi

\* C1: no two distinct unsettled rentals of the same car have date ranges
\* [start_date, end_date-or-infinity] that share a date
C1_NoOverlappingUnsettledRentals ==
    \A r1 \in DOMAIN rentals, r2 \in DOMAIN rentals :
        (/\ r1 # r2
         /\ rentals[r1].car_id = rentals[r2].car_id
         /\ ~rentals[r1].deposit_refunded
         /\ ~rentals[r2].deposit_refunded)
        => ~SharesDate(rentals[r1], rentals[r2])

\* the overlap condition as the claim words it, with the open ends spelled out
ClaimedOverlap(R, start_date, end_date) ==
    /\ (end_date = NoDate \/ R.start_date <= end_date)
    /\ (R.end_date = NoDate \/ start_date <= R.end_date)

\* one of the two ranges ends the day before the other starts
OnlyAdjacent(R, start_date, end_date) ==
    \/ R.end_date # NoDate /\ R.end_date + 1 = start_date
    \/ end_date # NoDate /\ end_date + 1 = R.start_date

\* C7: an add_rental request is rejected exactly when some existing rental
\* of the same car overlaps the requested range (inclusive ends, absent end
\* = +infinity), and a request that is only adjacent to the car's rentals
\* is never rejected
C7_AddRejectsExactlyOnOverlap ==
    [][\A c \in CarIds, s \in Days, e \in DaysOrNone :
          (/\ resp'.op = "add_rental"
           /\ \E cu \in RentalCustomers, d \in RentalDeposits :
                 add_rental(c, cu, s, e, NoAmount, NoAmount, d))
          => /\ (resp'.status = "overlap")
                  <=> (\E r \in DOMAIN rentals :
                          /\ rentals[r].car_id = c
                          /\ ClaimedOverlap(rentals[r], s, e))
             /\ (\A r \in DOMAIN rentals :
                    rentals[r].car_id = c => OnlyAdjacent(rentals[r], s, e))
                  => resp'.status = "ok"]_vars

\* C7 witness: a request was rejected for overlap although the car already
\* holds two rentals that are adjacent day to day (the second was accepted)
C7_Witness ==
    /\ resp.op = "add_rental" /\ resp.status = "overlap"
    /\ \E r1 \in DOMAIN rentals, r2 \in DOMAIN rentals :
          /\ r1 < r2
          /\ rentals[r1].car_id = rentals[r2].car_id
          /\ rentals[r1].end_date # NoDate
          /\ rentals[r1].end_date + 1 = rentals[r2].start_date

C2_SettledRentalIsNotResettled ==
    [][\A r \in DOMAIN rentals :
          (settle_rental(r) /\ rentals[r].deposit_refunded)
          => /\ resp'.status = "already_settled"
             /\ UNCHANGED <<rentals, fines, damages, salik>>]_vars

\* the unpaid fines and damages of the rental's (car, customer) pair and the
\* unpaid toll entries of the rental, as the claims describe them
ClaimedFines(r) ==
    {f \in DOMAIN fines : /\ ~fines[f].paid
                          /\ fines[f].car_id = rentals[r].car_id
                          /\ fines[f].customer_id = rentals[r].customer_id}
ClaimedDamages(r) ==
    {d \in DOMAIN damages : /\ ~damages[d].paid
                            /\ damages[d].car_id = rentals[r].car_id
                            /\ damages[d].customer_id = rentals[r].customer_id}
ClaimedSalik(r) ==
    {s \in DOMAIN salik : ~salik[s].paid /\ salik[s].rental_id = r}
ClaimedTotal(r) ==
    SumAmounts(fines, ClaimedFines(r)) + SumAmounts(damages, ClaimedDamages(r))
      + SumAmounts(salik, ClaimedSalik(r))

\* C3: a settlement commit stores deposit_refunded_amount = max(deposit -
\* totalCharges, 0), never negative, where totalCharges sums the unpaid fines
\* and damages of the rental's (car, customer) pair and the rental's unpaid
\* toll entries
C3_RefundIsDepositLessCharges ==
    [][\A r \in DOMAIN rentals :
          (resp'.op = "settle_rental" /\ settle_rental(r) /\ resp'.status = "ok")
          => LET rest == OrZero(rentals[r].deposit) - ClaimedTotal(r)
             IN /\ rentals'[r].deposit_refunded_amount
                      = (IF rest > 0 THEN rest ELSE 0)
                /\ rentals'[r].deposit_refunded_amount >= 0]_vars

\* C3 witness: the scenario of the specification: deposit 50, a fine of 12
\* and a toll entry of 3 were outstanding, the commit stored a refund of 35
C3_Witness ==
    /\ resp.op = "settle_rental" /\ resp.status = "ok"
    /\ resp.rental \in DOMAIN rentals
    /\ rentals[resp.rental].deposit = 50
    /\ rentals[resp.rental].deposit_refunded
    /\ rentals[resp.rental].deposit_refunded_amount = 35
    /\ \E f \in DOMAIN fines : fines[f].amount = 12 /\ fines[f].settled_via = "deposit"
    /\ \E s \in DOMAIN salik : salik[s].amount = 3 /\ salik[s].settled_via = "deposit"

\* C4: right after a settlement commit every charge that was outstanding for
\* the rental is paid with settled_via = "deposit", and the rental has no
\* outstanding charge left
C4_CommitSettlesEveryOutstandingCharge ==
    [][\A r \in DOMAIN rentals :
          (resp'.op = "settle_rental" /\ settle_rental(r) /\ resp'.status = "ok")
          => /\ \A f \in ClaimedFines(r) :
                   fines'[f].paid /\ fines'[f].settled_via = "deposit"
             /\ \A d \in ClaimedDamages(r) :
                   damages'[d].paid /\ damages'[d].settled_via = "deposit"
             /\ \A s \in ClaimedSalik(r) :
                   salik'[s].paid /\ salik'[s].settled_via = "deposit"
             /\ ClaimedFines(r)' = {}
             /\ ClaimedDamages(r)' = {}
             /\ ClaimedSalik(r)' = {}]_vars

\* C4 witness: a commit whose charges (a damage of 40 and a fine of 12)
\* exceeded the deposit of 50: the refund is 0 and both are paid via deposit
C4_Witness ==
    /\ resp.op = "settle_rental" /\ resp.status = "ok"
    /\ resp.rental \in DOMAIN rentals
    /\ rentals[resp.rental].deposit_refunded
    /\ rentals[resp.rental].deposit_refunded_amount = 0
    /\ \E f \in DOMAIN fines, d \in DOMAIN damages :
          /\ fines[f].paid /\ fines[f].settled_via = "deposit"
          /\ damages[d].paid /\ damages[d].settled_via = "deposit"
          /\ fines[f].amount + damages[d].amount > rentals[resp.rental].deposit

\* C5: once a rental's deposit_refunded is true it is true in every later
\* state in which the rental still exists
C5_SettledStaysSettled ==
    [][\A r \in DOMAIN rentals :
          (rentals[r].deposit_refunded /\ r \in DOMAIN rentals')
          => rentals'[r].deposit_refunded]_vars

\* C5 witness: a settled rental has just been edited (moved to customer 2)
\* and is still settled
C5_Witness ==
    /\ resp.op = "edit_rental"
    /\ resp.rental \in DOMAIN rentals
    /\ rentals[resp.rental].customer_id = 2
    /\ rentals[resp.rental].deposit_refunded

\* C6: the settlement commit is atomic. While the POST branch runs, and when
\* it fails at any statement, the store is left as it was; the only step
\* that changes the store is the commit, and it marks every outstanding
\* charge of the rental paid via deposit together with the rental itself
C6_SettlementCommitIsAtomic ==
    [][pc # "idle"
       => \/ UNCHANGED <<rentals, fines, damages, salik>>
          \/ /\ pc = "commit" /\ pc' = "idle"
             /\ rentals'[sess.rental].deposit_refunded
             /\ \A f \in ClaimedFines(sess.rental) :
                   fines'[f].paid /\ fines'[f].settled_via = "deposit"
             /\ \A d \in ClaimedDamages(sess.rental) :
                   damages'[d].paid /\ damages'[d].settled_via = "deposit"
             /\ \A s \in ClaimedSalik(sess.rental) :
                   salik'[s].paid /\ salik'[s].settled_via = "deposit"]_vars

\* C6 witness: a settlement failed at its last statement, after every
\* charge and the rental were marked in the session: the rental is not
\* settled and its fine is still outstanding
C6_Witness ==
    /\ pc = "idle"
    /\ resp.op = "settle_rental" /\ resp.status = "error" /\ resp.at = "commit"
    /\ resp.rental \in DOMAIN rentals
    /\ ~rentals[resp.rental].deposit_refunded
    /\ ClaimedFines(resp.rental) # {}

\* a charge row is consistent: paid rows say how they were settled, unpaid
\* rows have settled_via unset (NULL or the empty string)
ConsistentCharge(row) ==
    IF row.paid THEN row.settled_via \in {"rent", "deposit"}
    ELSE row.settled_via \in {NoVia, ""}

\* C9: in every reachable state every paid charge has settled_via "rent" or
\* "deposit" and every unpaid charge has settled_via unset
C9_PaidIffSettledVia ==
    /\ \A f \in DOMAIN fines : ConsistentCharge(fines[f])
    /\ \A d \in DOMAIN damages : ConsistentCharge(damages[d])
    /\ \A s \in DOMAIN salik : ConsistentCharge(salik[s])

\* the row c of table t has settled_via = "deposit" after the step and did
\* not before it
BecomesDeposit(t, c) ==
    /\ c \in DOMAIN t'
    /\ t'[c].settled_via = "deposit"
    /\ (c \notin DOMAIN t \/ t[c].settled_via # "deposit")

\* C10: a charge's settled_via becomes "deposit" only by a settlement commit
\* on a rental for which the charge was outstanding
C10_DepositOnlyBySettlement ==
    [][/\ \A f \in DOMAIN fines' :
            BecomesDeposit(fines, f)
            => \E r \in DOMAIN rentals :
                  settle_rental(r) /\ resp'.status = "ok" /\ f \in ClaimedFines(r)
       /\ \A d \in DOMAIN damages' :
            BecomesDeposit(damages, d)
            => \E r \in DOMAIN rentals :
                  settle_rental(r) /\ resp'.status = "ok" /\ d \in ClaimedDamages(r)
       /\ \A s \in DOMAIN salik' :
            BecomesDeposit(salik, s)
            => \E r \in DOMAIN rentals :
                  settle_rental(r) /\ resp'.status = "ok" /\ s \in ClaimedSalik(r)]_vars

\* the row c of table t is modified by the step
Modified(t, c) == c \in DOMAIN t /\ c \in DOMAIN t' /\ t'[c] # t[c]

\* C11: recording a payment for a rental marks paid via rent only charges
\* that are outstanding for that rental at that moment; a selected id that
\* names an already paid charge, or a charge of another rental, car or
\* customer, is not modified
C11_PaymentMarksOnlyOutstanding ==
    [][(resp'.op = "add_payment" /\ resp'.status = "ok")
       => /\ \A f \in DOMAIN fines :
                Modified(fines, f) => f \in ClaimedFines(resp'.rental)
          /\ \A d \in DOMAIN damages :
                Modified(damages, d) => d \in ClaimedDamages(resp'.rental)
          /\ \A s \in DOMAIN salik :
                Modified(salik, s) => s \in ClaimedSalik(resp'.rental)]_vars

\* the paid flag and settled_via of every row of table t are left as they were
SettlementKept(t) ==
    /\ DOMAIN t' = DOMAIN t
    /\ \A c \in DOMAIN t :
          t'[c].paid = t[c].paid /\ t'[c].settled_via = t[c].settled_via

\* C12: a payment recorded with no charges selected adds exactly one payment
\* to that rental and leaves the paid flag and settled_via of every charge
\* unchanged, whatever the amount: payments are never matched to charges
C12_UnselectedPaymentOnlyAddsCredit ==
    [][\A r \in DOMAIN rentals, a \in AnyPaymentAmounts :
          (/\ resp'.op = "add_payment" /\ resp'.status = "ok"
           /\ add_payment(r, a, {}, {}, {}))
          => /\ \E p \in DOMAIN payments' \ DOMAIN payments :
                   /\ DOMAIN payments' = DOMAIN payments \cup {p}
                   /\ payments'[p].rental_id = r
                   /\ payments'[p].amount = a
             /\ \A q \in DOMAIN payments : payments'[q] = payments[q]
             /\ SettlementKept(fines)
             /\ SettlementKept(damages)
             /\ SettlementKept(salik)]_vars

\* C12 witness: a payment of 12 was recorded on a rental that has an unpaid
\* fine of 12, and every charge is still unpaid with settled_via unset
C12_Witness ==
    /\ resp.op = "add_payment" /\ resp.status = "ok"
    /\ \E p \in DOMAIN payments :
          payments[p].rental_id = resp.rental /\ payments[p].amount = 12
    /\ \E f \in ClaimedFines(resp.rental) : fines[f].amount = 12
    /\ \A f \in DOMAIN fines : ~fines[f].paid /\ fines[f].settled_via = NoVia
    /\ \A d \in DOMAIN damages : ~damages[d].paid
    /\ \A x \in DOMAIN salik : ~salik[x].paid

\* floor(n / d) for d > 0, by its defining inequality
ClaimedFloor(n, d) == CHOOSE q \in -100..100 : q * d <= n /\ n < (q + 1) * d

\* rentDue as the claims describe it
ClaimedPeriodEnd(R, asOf) ==
    IF R.end_date = NoDate THEN asOf
    ELSE IF R.end_date < asOf THEN R.end_date ELSE asOf
ClaimedIntervals(R, asOf) ==
    ClaimedFloor(ClaimedPeriodEnd(R, asOf) - R.start_date, R.billing_interval_days) + 1
ClaimedRate(R) ==
    IF R.actual_rent # NoAmount THEN R.actual_rent
    ELSE IF R.planned_rent # NoAmount THEN R.planned_rent ELSE 0

\* C13: the due summary reports periodEnd = end_date when it is set and
\* earlier than asOf, else asOf; intervalsElapsed = floor((periodEnd -
\* start_date) / billingIntervalDays) + 1; and baseDue = rate *
\* intervalsElapsed with rate = actual_rent if set, else planned_rent, else
\* 0, without proration
C13_RentDueFormula ==
    [][\A r \in DOMAIN rentals :
          (rental_due_summary(r) /\ resp'.status = "ok")
          => LET R == rentals[r]
             IN /\ resp'.view.period_end = ClaimedPeriodEnd(R, today)
                /\ resp'.view.intervals = ClaimedIntervals(R, today)
                /\ resp'.view.base_due
                     = ClaimedRate(R) * ClaimedIntervals(R, today)]_vars

\* C13 witness: the scenario of the specification: start on day 1, no end,
\* interval 30, actual rent 30, looked at on day 46, 45 days later: 2
\* intervals, 60 due
C13_Witness ==
    /\ resp.op = "rental_due_summary" /\ resp.status = "ok"
    /\ resp.view.period_end = 46
    /\ rentals[resp.rental].start_date = 1
    /\ rentals[resp.rental].end_date = NoDate
    /\ rentals[resp.rental].billing_interval_days = 30
    /\ rentals[resp.rental].actual_rent = 30
    /\ resp.view.intervals = 2
    /\ resp.view.base_due = 60

\* the base due the summary has just reported for the row R on the day asOf
\* is not below the base due of any earlier day nor above that of any later
\* day, and equals that of every other day after a fixed end_date
MonotoneAround(R, asOf, base_due) ==
    \A d \in DueDates :
       /\ d <= asOf => BaseDue(R, d) <= base_due
       /\ d >= asOf => base_due <= BaseDue(R, d)
       /\ (R.end_date # NoDate /\ d > R.end_date /\ asOf > R.end_date)
            => BaseDue(R, d) = base_due

\* C16 as stated: for any fixed rental parameters baseDue is monotonically
\* non-decreasing in asOf and constant for all asOf after a fixed end_date
C16_BaseDueMonotoneInAsOf ==
    [][\A r \in DOMAIN rentals :
          (rental_due_summary(r) /\ resp'.status = "ok")
          => MonotoneAround(rentals[r], today, resp'.view.base_due)]_vars

\* C16 amended: for fixed rental parameters with a rate that is not
\* negative, baseDue is monotonically non-decreasing in asOf, and for any
\* rate it is constant for all asOf after a fixed end_date
C16_BaseDueMonotoneForNonNegativeRate ==
    [][\A r \in DOMAIN rentals :
          (rental_due_summary(r) /\ resp'.status = "ok")
          => /\ ClaimedRate(rentals[r]) >= 0
                  => MonotoneAround(rentals[r], today, resp'.view.base_due)
             /\ \A d \in DueDates :
                   (/\ rentals[r].end_date # NoDate
                    /\ d > rentals[r].end_date /\ today > rentals[r].end_date)
                   => BaseDue(rentals[r], d) = resp'.view.base_due]_vars

\* C16 witness: a rental from day 1 to day 31 at a rate of 30 is reported
\* with 60 due, more than the 30 of day 1 and the same as on day 61, and the
\* calendar stands at day 46, after its end
C16_Witness ==
    /\ resp.op = "rental_due_summary" /\ resp.status = "ok"
    /\ today = 46
    /\ rentals[resp.rental].start_date = 1
    /\ rentals[resp.rental].end_date = 31
    /\ ClaimedRate(rentals[resp.rental]) = 30
    /\ resp.view.base_due = 60
    /\ BaseDue(rentals[resp.rental], 1) = 30
    /\ BaseDue(rentals[resp.rental], 61) = 60

\* C14: every rental reachable through create, edit and settle has
\* billingIntervalDays > 0, and for every asOf on or after its start_date the
\* computed intervalsElapsed is at least 1
C14_AtLeastOneIntervalOnceStarted ==
    [][\A r \in DOMAIN rentals :
          (rental_due_summary(r) /\ resp'.status = "ok")
          => /\ rentals[r].billing_interval_days > 0
             /\ today >= rentals[r].start_date => resp'.view.intervals >= 1]_vars

\* C15: for every rental and every asOf, including rentals whose end_date is
\* before their start_date and asOf dates before the start_date,
\* intervalsElapsed is never below 0, and baseDue is never negative for a
\* rate that is not negative
C15_IntervalsNeverNegative ==
    [][\A r \in DOMAIN rentals :
          (rental_due_summary(r) /\ resp'.status = "ok")
          => /\ resp'.view.intervals >= 0
             /\ ClaimedRate(rentals[r]) >= 0 => resp'.view.base_due >= 0]_vars

\* the sum of all payment amounts recorded on the rental r
ClaimedPayments(r) ==
    SumAmounts(payments, {p \in DOMAIN payments : payments[p].rental_id = r})

\* C17: the due amount of a rental at asOf is baseDue plus the amounts of
\* the unpaid fines and damages of the rental's car and customer and of the
\* rental's unpaid toll entries, minus the flat total of all payments
\* recorded on the rental
C17_DueAmountIsBasePlusChargesLessPayments ==
    [][\A r \in DOMAIN rentals :
          (rental_due_summary(r) /\ resp'.status = "ok")
          => /\ resp'.view.charges_due = ClaimedTotal(r)
             /\ resp'.view.total_payments = ClaimedPayments(r)
             /\ resp'.view.due_amount
                  = ClaimedRate(rentals[r]) * ClaimedIntervals(rentals[r], today)
                      + ClaimedTotal(r) - ClaimedPayments(r)]_vars

\* C17 witness: a month on, two intervals of 30 are due on a rental with an
\* unpaid toll entry of 3, a fine of 12 already paid via rent and a payment
\* of 30: the summary shows 60 + 3 - 30 = 33
C17_Witness ==
    /\ resp.op = "rental_due_summary" /\ resp.status = "ok"
    /\ resp.view.base_due = 60
    /\ resp.view.charges_due = 3
    /\ resp.view.total_payments = 30
    /\ resp.view.due_amount = 33
    /\ \E f \in DOMAIN fines :
          /\ fines[f].car_id = rentals[resp.rental].car_id
          /\ fines[f].customer_id = rentals[resp.rental].customer_id
          /\ fines[f].paid /\ fines[f].settled_via = "rent"

\* C18: the settlement preview is side-effect-free: it leaves every rental,
\* charge and payment unchanged, shows totalCharges and refundable =
\* max(deposit - totalCharges, 0), and a commit performed in the state the
\* preview was shown for stores exactly the refundable it showed
C18_PreviewIsPureAndAgreesWithCommit ==
    [][\A r \in DOMAIN rentals :
          /\ (settle_rental_preview(r) /\ resp'.status = "ok")
             => /\ UNCHANGED <<rentals, payments, fines, damages, salik>>
                /\ resp'.view.total_charges = ClaimedTotal(r)
                /\ LET rest == OrZero(rentals[r].deposit) - ClaimedTotal(r)
                   IN resp'.view.refundable = (IF rest > 0 THEN rest ELSE 0)
          /\ (/\ resp.op = "settle_rental_preview" /\ resp.status = "ok"
              /\ resp.rental = r
              /\ settle_rental(r) /\ resp'.status = "ok")
             => rentals'[r].deposit_refunded_amount = resp.view.refundable]_vars

\* C18 witness: the preview of an unsettled rental with deposit 50 shows
\* charges of 15 (a fine of 12 and a toll entry of 3) and 35 refundable, and
\* both charges are still unpaid
C18_Witness ==
    /\ resp.op = "settle_rental_preview" /\ resp.status = "ok"
    /\ resp.view.total_charges = 15
    /\ resp.view.refundable = 35
    /\ ~rentals[resp.rental].deposit_refunded
    /\ \E f \in resp.view.outstanding_fines : ~fines[f].paid /\ fines[f].amount = 12
    /\ \E x \in resp.view.outstanding_salik : ~salik[x].paid /\ salik[x].amount = 3

\* C19: a settlement commit sets end_date to today exactly when the rental
\* had no end date and otherwise keeps the end_date it had; in both cases
\* deposit_refunded becomes true and deposit_refund_date becomes today
C19_CommitClosesOnlyOpenRentals ==
    [][\A r \in DOMAIN rentals :
          (settle_rental(r) /\ resp'.status = "ok")
          => /\ rentals[r].end_date = NoDate => rentals'[r].end_date = today
             /\ rentals[r].end_date # NoDate
                  => rentals'[r].end_date = rentals[r].end_date
             /\ rentals'[r].deposit_refunded
             /\ rentals'[r].deposit_refund_date = today]_vars

\* C19 witness: a rental that ended on day 1 was settled on day 2 and still
\* ends on day 1, next to a rental that starts on day 2 and was closed by
\* its settlement on day 2
C19_Witness ==
    /\ resp.op = "settle_rental" /\ resp.status = "ok"
    /\ today = 2
    /\ \E r1 \in DOMAIN rentals, r2 \in DOMAIN rentals :
          /\ rentals[r1].deposit_refunded
          /\ rentals[r1].end_date = 1
          /\ rentals[r1].deposit_refund_date = 2
          /\ rentals[r2].deposit_refunded
          /\ rentals[r2].start_date = 2
          /\ rentals[r2].end_date = 2
          /\ rentals[r2].deposit_refund_date = 2

\* isRented and isBooked as the claim states them
ClaimedRented(c, day) ==
    \E r \in DOMAIN rentals :
        /\ rentals[r].car_id = c
        /\ rentals[r].start_date <= day
        /\ (rentals[r].end_date = NoDate \/ rentals[r].end_date >= day)
ClaimedBooked(c, day) ==
    \E b \in DOMAIN bookings :
        /\ bookings[b].car_id = c
        /\ bookings[b].start_date <= day /\ day <= bookings[b].end_date

\* C20: for every car and date the occupancy status is exactly one of
\* Rented, Booked, Available: Rented iff some rental of the car has
\* start_date <= today and end_date absent or >= today; Booked iff it is not
\* Rented and some booking of the car covers today; otherwise Available; a
\* car that is both rented and booked is reported Rented
C20_StatusIsRentedBookedOrAvailable ==
    [][(availability /\ resp'.status = "ok")
       => LET rows == resp'.view.rows
          IN /\ \A c \in cars :
                   ~IsDefleeted(c)
                   => Cardinality({i \in DOMAIN rows : rows[i].car = c}) = 1
             /\ \A i \in DOMAIN rows :
                   LET c == rows[i].car
                   IN /\ rows[i].status \in {"Rented", "Booked", "Available"}
                      /\ rows[i].status = "Rented" <=> ClaimedRented(c, today)
                      /\ rows[i].status = "Booked"
                           <=> (~ClaimedRented(c, today) /\ ClaimedBooked(c, today))
                      /\ rows[i].status = "Available"
                           <=> (~ClaimedRented(c, today) /\ ~ClaimedBooked(c, today))
                      /\ (ClaimedRented(c, today) /\ ClaimedBooked(c, today))
                           => rows[i].status = "Rented"]_vars

\* C20 witness: on day 2 the page reports a car Rented that is both rented
\* (a rental ending that day) and booked for the day
C20_Witness ==
    /\ resp.op = "availability" /\ resp.status = "ok"
    /\ resp.view.today = 2 /\ today = 2
    /\ \E i \in DOMAIN resp.view.rows :
          LET c == resp.view.rows[i].car
          IN /\ resp.view.rows[i].status = "Rented"
             /\ ClaimedBooked(c, 2)
             /\ \E r \in DOMAIN rentals :
                   rentals[r].car_id = c /\ rentals[r].end_date = 2

\* daysRented as the claim states it: the sum over the rentals 1..n of the
\* car of effectiveEnd - start_date + 1
RECURSIVE ClaimedDaysRented(_, _, _)
ClaimedDaysRented(n, c, day) ==
    IF n = 0 THEN 0
    ELSE (IF n \in DOMAIN rentals /\ rentals[n].car_id = c
          THEN (IF rentals[n].end_date = NoDate THEN day ELSE rentals[n].end_date)
                  - rentals[n].start_date + 1
          ELSE 0) + ClaimedDaysRented(n - 1, c, day)

\* the total period as the claim states it
ClaimedTotalPeriod(c, day) ==
    LET starts == {rentals[r].start_date :
                      r \in {x \in DOMAIN rentals : rentals[x].car_id = c}}
        earliest == IF starts = {} THEN day
                    ELSE CHOOSE x \in starts : \A y \in starts : x <= y
    IN Max2(day - earliest + 1, 1)

ClaimedActiveRental(c, day) ==
    \E r \in DOMAIN rentals :
        /\ rentals[r].car_id = c
        /\ \/ ~rentals[r].deposit_refunded
           \/ rentals[r].end_date = NoDate
           \/ rentals[r].end_date >= day

UnsettledOpenRental(c, day) ==
    \E r \in DOMAIN rentals :
        /\ rentals[r].car_id = c
        /\ ~rentals[r].deposit_refunded
        /\ (rentals[r].end_date = NoDate \/ rentals[r].end_date >= day)

C23_RefundIsFinal ==
    [][\A r \in DOMAIN rentals :
          (rentals[r].deposit_refunded /\ r \in DOMAIN rentals')
          => /\ rentals'[r].deposit_refunded_amount = rentals[r].deposit_refunded_amount
             /\ rentals'[r].deposit_refund_date = rentals[r].deposit_refund_date]_vars

\* C24: for every settled rental, in every reachable state,
\* 0 <= deposit_refunded_amount <= deposit: the recorded refund never exceeds
\* the deposit held on the rental, whatever charge amounts were entered and
\* whatever edits are made to the rental before or after settlement
C24_RefundWithinDeposit ==
    \A r \in DOMAIN rentals :
        rentals[r].deposit_refunded
        => /\ 0 <= rentals[r].deposit_refunded_amount
           /\ rentals[r].deposit_refunded_amount <= OrZero(rentals[r].deposit)

\* C25: in every reachable state, every rental has end_date absent or
\* end_date >= start_date, after any sequence of add_rental, edit_rental and
\* settlement commit (which sets end_date = today on an open-ended rental,
\* including one whose start_date is in the future)
C25_EndNotBeforeStart ==
    \A r \in DOMAIN rentals :
        rentals[r].end_date = NoDate \/ rentals[r].end_date >= rentals[r].start_date

\* C26: committing settlement of rental R changes only R and the charges
\* that were outstanding for R: every other rental, every payment, and every
\* charge of a different (car, customer) pair or of a different rental's
\* toll entries is left unchanged (as is every charge that was already paid)
C26_SettlementTouchesOnlyItsOwn ==
    [][\A r \in DOMAIN rentals :
          (resp'.op = "settle_rental" /\ settle_rental(r))
          => /\ DOMAIN rentals' = DOMAIN rentals
             /\ \A x \in DOMAIN rentals : x # r => rentals'[x] = rentals[x]
             /\ payments' = payments
             /\ DOMAIN fines' = DOMAIN fines
             /\ DOMAIN damages' = DOMAIN damages
             /\ DOMAIN salik' = DOMAIN salik
             /\ \A f \in DOMAIN fines :
                   (\/ fines[f].car_id # rentals[r].car_id
                    \/ fines[f].customer_id # rentals[r].customer_id
                    \/ fines[f].paid) => fines'[f] = fines[f]
             /\ \A d \in DOMAIN damages :
                   (\/ damages[d].car_id # rentals[r].car_id
                    \/ damages[d].customer_id # rentals[r].customer_id
                    \/ damages[d].paid) => damages'[d] = damages[d]
             /\ \A x \in DOMAIN salik :
                   (salik[x].rental_id # r \/ salik[x].paid)
                   => salik'[x] = salik[x]
             /\ UNCHANGED <<cars, customers, bookings, defleeted, car_order>>]_vars

\* C26 witness: a settlement has marked a charge of its rental paid via
\* deposit while another rental is unsettled, a charge that is not the
\* settled rental's is still unpaid, and a payment is on record
C26_Witness ==
    /\ resp.op = "settle_rental" /\ resp.status = "ok"
    /\ rentals[resp.rental].deposit_refunded
    /\ \E x \in DOMAIN rentals : x # resp.rental /\ ~rentals[x].deposit_refunded
    /\ payments # EmptyTable
    /\ \/ \E f \in DOMAIN fines : fines[f].settled_via = "deposit"
       \/ \E x \in DOMAIN salik :
             salik[x].rental_id = resp.rental /\ salik[x].settled_via = "deposit"
    /\ \/ \E f \in DOMAIN fines :
             fines[f].car_id # rentals[resp.rental].car_id /\ ~fines[f].paid
       \/ \E x \in DOMAIN salik : salik[x].rental_id # resp.rental /\ ~salik[x].paid

\* C27: recording a payment of amount A on a rental lowers that rental's due
\* amount (baseDue + unpaid charges - payments, evaluated at the same asOf
\* date) by exactly A, whichever charges are selected at payment entry
C27_PaymentLowersDueByItsAmount ==
    [][\A r \in DOMAIN rentals :
          (/\ resp'.op = "add_payment" /\ resp'.status = "ok"
           /\ resp'.rental = r)
          => LET A == payments'[NextId(payments)].amount
             IN DueFigures(r, today)'.due_amount
                  = DueFigures(r, today).due_amount - A]_vars

\* C28: in every reachable state, every rental refers to a car and a
\* customer that still exist, after any sequence of create and delete
\* operations on cars, customers and rentals, so that the due summary,
\* payment entry and settlement of any existing rental can always gather its
\* outstanding charges
C28_RentalsReferToExistingRows ==
    \A r \in DOMAIN rentals :
        rentals[r].car_id \in cars /\ rentals[r].customer_id \in customers

\* C29: for every car in the report, daysRented never exceeds the total
\* period (today - earliestRentalStart + 1, at least 1), i.e. utilisation
\* never exceeds 100 percent, for any set of rentals that add_rental
\* accepts, including rentals with a fixed end date or a start date later
\* than today
C29_UtilisationAtMostOneHundred ==
    [][(resp'.op = "reports" /\ reports)
       => \A c \in cars :
             /\ resp'.view.rows[c].days_rented <= ClaimedTotalPeriod(c, today)
             /\ resp'.view.rows[c].utilisation_pct <= 10000]_vars

\* C30: when two add_rental requests for the same car with overlapping date
\* ranges are processed concurrently, with the read of existing rentals and
\* the insert of each request interleaved, at most one of them is persisted;
\* the no-overlap property of the car's rentals holds in every interleaving
C30_NoOverlapUnderConcurrentAdds ==
    \A r1 \in DOMAIN rentals, r2 \in DOMAIN rentals :
        (r1 # r2 /\ rentals[r1].car_id = rentals[r2].car_id)
        => ~SharesDate(rentals[r1], rentals[r2])

====
